---- MODULE Spec2Model ----
(***************************************************************************)
(* Domain & SSL certificate expiry monitoring core of neural-engineer.     *)
(*                                                                         *)
(*   - Subscription Store: NotificationHandler (notification_handler.py),  *)
(*     a Redis hash per subscriber, keyed by the SHA-256 of the e-mail.    *)
(*   - check_domains (domain_check.py): the per-domain classification loop.*)
(*   - Domain Expiry Cache: enhanced_cached.decorator (enhanced_cached.py) *)
(*     wrapped around check_domain_expiry.                                 *)
(*   - Notification Scheduler: NotificationScheduler                       *)
(*     (notification_scheduler.py) and the two entry points that run it,   *)
(*     scheduled_domain_check (main.py) and main (run_scheduler.py).       *)
(*                                                                         *)
(* Strings that the code joins and splits are sequences of characters, so  *)
(* that ",".join / str.split are computed and not assumed to round-trip.   *)
(***************************************************************************)
EXTENDS Integers, Sequences, FiniteSets, TLC

VARIABLES
    store,      \* Redis: key -> hash (function from field name to value)
    redis_up,   \* whether the Redis server answers
    pc,         \* per client: position inside the handler it is running
    call,       \* per client: the handler call in progress / last completed
    locals,     \* per client: the handler's local list (all_domains / updated_domains)
    ret,        \* per client: what the last completed call returned or raised
    pre,        \* per client: the subscriber's hash when the call started (history)
    cd,         \* per run of check_domains: its arguments, locals and results
    cache,      \* Redis cache: key -> entry (serialized value, expiry time)
    cache_up,   \* whether the cache's Redis answers
    now,        \* the clock, in seconds
    whois_calls,\* how many times the wrapped check_domain_expiry body has run
    cq,         \* per caller: the decorated call in progress / last completed
    tasks,      \* asyncio tasks created and not yet run
    run,        \* the scheduled run: its position, locals, result and what it left behind
    ssl,        \* the call of check_domain_certificates: its arguments, locals and results
    update_ttl_on_hit,  \* the decorator's attribute of that name, set when it is built
    threads     \* the notification threads register_domains started, in order

storeVars == <<store, redis_up, pc, call, locals, ret, pre>>
checkVars == <<cd>>
cacheVars == <<cache, cache_up, now, whois_calls, cq, tasks>>
schedVars == <<run>>
sslVars == <<ssl>>
decoVars == <<update_ttl_on_hit>>
threadVars == <<threads>>

\* what the actions of one component leave alone
notStore == <<checkVars, cacheVars, schedVars, sslVars, decoVars, threadVars>>
notCheck == <<storeVars, cacheVars, schedVars, sslVars, decoVars, threadVars>>
notCache == <<storeVars, checkVars, schedVars, sslVars, decoVars, threadVars>>
notSched == <<storeVars, checkVars, cacheVars, sslVars, decoVars, threadVars>>
notSsl == <<storeVars, checkVars, cacheVars, schedVars, decoVars, threadVars>>

----------------------------------------------------------------------------
(* Bounds and input alphabets                                              *)

MaxListLen == 2

Procs == {1, 2}
SeqProcs == {1}

Emails == {"e1", "e2"}

\* domain names as character strings: "a" and "bc"
Domains == {<<"a">>, <<"b", "c">>}

RECURSIVE SeqsUpTo(_, _)
SeqsUpTo(S, n) ==
    IF n = 0 THEN {<<>>}
    ELSE LET shorter == SeqsUpTo(S, n - 1)
         IN  shorter \cup {Append(s, x) : s \in shorter, x \in S}

DomainLists == SeqsUpTo(Domains, MaxListLen)

Range(s) == {s[i] : i \in 1..Len(s)}

\* every list that enumerates the set S once (iteration order of a Python set)
ListsOfSet(S) ==
    {f \in [1..Cardinality(S) -> S] : \A i, j \in 1..Cardinality(S) : f[i] = f[j] => i = j}

----------------------------------------------------------------------------
(* Python string helpers used by NotificationHandler                       *)

RECURSIVE Join(_)
Join(l) ==
    IF l = <<>> THEN <<>>
    ELSE IF Len(l) = 1 THEN l[1]
    ELSE l[1] \o <<",">> \o Join(Tail(l))

RECURSIVE Split(_)
Split(s) ==
    IF \A i \in 1..Len(s) : s[i] # ","
    THEN <<s>>
    ELSE LET i == CHOOSE k \in 1..Len(s) : s[k] = "," /\ \A m \in 1..(k - 1) : s[m] # ","
         IN  <<SubSeq(s, 1, i - 1)>> \o Split(SubSeq(s, i + 1, Len(s)))

----------------------------------------------------------------------------
(* Redis hash operations                                                   *)

EmptyHash == <<>>

hash_email(email) == <<"sha256", email>>

Keys == {hash_email(e) : e \in Emails}

hset(h, field, value) ==
    [k \in (DOMAIN h) \cup {field} |-> IF k = field THEN value ELSE h[k]]

\* dict.get(field, default)
hget(h, field, default) == IF field \in DOMAIN h THEN h[field] ELSE default

IsActive(h) == "status" \in DOMAIN h /\ h["status"] = "active"

\* domains_str.split(",") if domains_str else []
ParseDomains(h) ==
    LET domains_str == hget(h, "domains", <<>>)
    IN  IF domains_str # <<>> THEN Split(domains_str) ELSE <<>>

\* the domain set a subscriber's hash holds, whatever its status
StoredSet(h) == Range(ParseDomains(h))

----------------------------------------------------------------------------
(* Call and return records                                                 *)

\* overlapped: history, TRUE when another client's call ran during this one
CallRec(op, email, domains, given) ==
    [op |-> op, email |-> email, domains |-> domains, given |-> given, overlapped |-> FALSE]

NoCall == CallRec("none", "", <<>>, FALSE)

Returned(kind, domains, subs) == [kind |-> kind, domains |-> domains, subs |-> subs]

NoRet == Returned("none", <<>>, <<>>)

HTTPException == Returned("HTTPException", <<>>, <<>>)

Ready(p) == pc[p] \in {"idle", "done"}

\* client p enters a handler; calls of other clients still running overlap it
StartCall(p, rec) ==
    call' = [q \in Procs |->
                IF q = p THEN [rec EXCEPT !.overlapped = \E r \in Procs \ {p} : ~Ready(r)]
                ELSE IF ~Ready(q) THEN [call[q] EXCEPT !.overlapped = TRUE]
                ELSE call[q]]

StoreInit ==
    /\ store = [k \in Keys |-> EmptyHash]
    /\ redis_up = TRUE
    /\ pc = [p \in Procs |-> "idle"]
    /\ call = [p \in Procs |-> NoCall]
    /\ locals = [p \in Procs |-> <<>>]
    /\ ret = [p \in Procs |-> NoRet]
    /\ pre = [p \in Procs |-> EmptyHash]

----------------------------------------------------------------------------
(* NotificationHandler.get_domains                                         *)

get_domains_value(email) ==
    IF ~redis_up THEN <<>>
    ELSE LET domain_data == store[hash_email(email)]
         IN  IF domain_data = EmptyHash THEN <<>>
             ELSE IF ~IsActive(domain_data) THEN <<>>
             ELSE ParseDomains(domain_data)

get_domains(p, email) ==
    /\ Ready(p)
    /\ StartCall(p, CallRec("get_domains", email, <<>>, FALSE))
    /\ pre' = [pre EXCEPT ![p] = store[hash_email(email)]]
    /\ ret' = [ret EXCEPT ![p] = Returned("value", get_domains_value(email), <<>>)]
    /\ pc' = [pc EXCEPT ![p] = "done"]
    /\ UNCHANGED <<store, redis_up, locals, notStore>>

----------------------------------------------------------------------------
(* NotificationHandler.register_domains: get_domains, then three hset calls *)

register_domains(p, email, domains) ==
    /\ Ready(p)
    /\ LET existing_domains == get_domains_value(email)
       IN  \E all_domains \in ListsOfSet(Range(existing_domains \o domains)) :
               locals' = [locals EXCEPT ![p] = all_domains]
    /\ StartCall(p, CallRec("register", email, domains, TRUE))
    /\ pre' = [pre EXCEPT ![p] = store[hash_email(email)]]
    /\ ret' = [ret EXCEPT ![p] = NoRet]
    /\ pc' = [pc EXCEPT ![p] = "reg_hset_email"]
    /\ UNCHANGED <<store, redis_up, notStore>>

\* one self.redis_client.hset(email_hash, key, value) of the loop over domain_data
register_hset(p, at, field, value, next) ==
    /\ pc[p] = at
    /\ IF redis_up
       THEN /\ store' = [store EXCEPT ![hash_email(call[p].email)] = hset(@, field, value)]
            /\ pc' = [pc EXCEPT ![p] = next]
            /\ ret' = [ret EXCEPT ![p] =
                         IF next = "done" THEN Returned("success", locals[p], <<>>) ELSE @]
       ELSE /\ ret' = [ret EXCEPT ![p] = HTTPException]
            /\ pc' = [pc EXCEPT ![p] = "done"]
            /\ UNCHANGED store
    /\ UNCHANGED <<redis_up, call, locals, pre, notStore>>

register_hset_email(p) ==
    register_hset(p, "reg_hset_email", "email", call[p].email, "reg_hset_domains")

register_hset_domains(p) ==
    register_hset(p, "reg_hset_domains", "domains", Join(locals[p]), "reg_hset_status")

register_hset_status(p) ==
    register_hset(p, "reg_hset_status", "status", "active", "done")

----------------------------------------------------------------------------
(* NotificationHandler.unregister_domains: hgetall, then one hset           *)

\* Python truthiness of the domains argument: None and [] are both falsy
Truthy(given, domains) == given /\ domains # <<>>

\* faulty variant: the filter keeps the listed domains instead of dropping them
SelectSeqIn(s, D) == SelectSeq(s, LAMBDA d : d \in D)

SelectSeqNotIn(s, D) == SelectSeq(s, LAMBDA d : d \notin D)

unregister_domains(p, email, domains, given) ==
    /\ Ready(p)
    /\ StartCall(p, CallRec("unregister", email, domains, given))
    /\ pre' = [pre EXCEPT ![p] = store[hash_email(email)]]
    /\ LET domain_data == store[hash_email(email)]
       IN  IF ~redis_up
           THEN /\ ret' = [ret EXCEPT ![p] = HTTPException]
                /\ pc' = [pc EXCEPT ![p] = "done"]
                /\ UNCHANGED locals
           ELSE IF domain_data = EmptyHash
           THEN /\ ret' = [ret EXCEPT ![p] = Returned("warning", <<>>, <<>>)]
                /\ pc' = [pc EXCEPT ![p] = "done"]
                /\ UNCHANGED locals
           ELSE IF Truthy(given, domains)
           THEN LET current_domains == Split(hget(domain_data, "domains", <<>>))
                    updated_domains == SelectSeqNotIn(current_domains, Range(domains))
                IN  /\ locals' = [locals EXCEPT ![p] = updated_domains]
                    /\ ret' = [ret EXCEPT ![p] = NoRet]
                    /\ pc' = [pc EXCEPT ![p] = "unreg_hset_domains"]
           ELSE /\ ret' = [ret EXCEPT ![p] = NoRet]
                /\ pc' = [pc EXCEPT ![p] = "unreg_hset_status"]
                /\ UNCHANGED locals
    /\ UNCHANGED <<store, redis_up, notStore>>

\* faulty variant: a Redis error in the hset is swallowed and reported as a warning
unregister_hset_swallow(p, at, field, value, result) ==
    /\ pc[p] = at
    /\ IF redis_up
       THEN /\ store' = [store EXCEPT ![hash_email(call[p].email)] = hset(@, field, value)]
            /\ ret' = [ret EXCEPT ![p] = result]
       ELSE /\ ret' = [ret EXCEPT ![p] = Returned("warning", <<>>, <<>>)]
            /\ UNCHANGED store
    /\ pc' = [pc EXCEPT ![p] = "done"]
    /\ UNCHANGED <<redis_up, call, locals, pre, notStore>>

unregister_hset(p, at, field, value, result) ==
    /\ pc[p] = at
    /\ IF redis_up
       THEN /\ store' = [store EXCEPT ![hash_email(call[p].email)] = hset(@, field, value)]
            /\ ret' = [ret EXCEPT ![p] = result]
       ELSE /\ ret' = [ret EXCEPT ![p] = HTTPException]
            /\ UNCHANGED store
    /\ pc' = [pc EXCEPT ![p] = "done"]
    /\ UNCHANGED <<redis_up, call, locals, pre, notStore>>

unregister_hset_domains(p) ==
    unregister_hset(p, "unreg_hset_domains", "domains", Join(locals[p]),
                    Returned("success", locals[p], <<>>))

\* faulty variant: unregistering everything clears the domains field (hard delete)
unregister_hset_status_hard(p) ==
    unregister_hset(p, "unreg_hset_status", "domains", <<>>,
                    Returned("success", <<>>, <<>>))

unregister_hset_status(p) ==
    unregister_hset(p, "unreg_hset_status", "status", "inactive",
                    Returned("success", <<>>, <<>>))

----------------------------------------------------------------------------
(* NotificationHandler.get_all_subscriptions                               *)

Subscription(h) ==
    [email |-> hget(h, "email", "unknown"), domains |-> ParseDomains(h), status |-> "active"]

\* faulty variant: the status filter is missing
RECURSIVE CollectAll(_)
CollectAll(all_keys) ==
    IF all_keys = <<>> THEN <<>>
    ELSE <<Subscription(store[Head(all_keys)])>> \o CollectAll(Tail(all_keys))

RECURSIVE CollectActive(_)
CollectActive(all_keys) ==
    IF all_keys = <<>> THEN <<>>
    ELSE LET subscription_data == store[Head(all_keys)]
         IN  (IF IsActive(subscription_data)
              THEN <<Subscription(subscription_data)>> ELSE <<>>)
             \o CollectActive(Tail(all_keys))

\* the subscription hashes that exist
ExistingKeys == {k \in Keys : store[k] # EmptyHash}

\* Python's None
None == <<>>

\* what the cache decorator keeps under a key of the same Redis database: a string
\* with a time to live; NoEntry when the key does not exist
Entry(data, expires_at) == [data |-> data, expires_at |-> expires_at]
NoEntry == Entry(None, 0)

StringKeys == {k \in DOMAIN cache : cache[k] # NoEntry}

\* redis keys("*"): every key that exists, in an arbitrary order
AllKeys == ExistingKeys \cup StringKeys

\* hgetall(key) on a key that holds a string: Redis answers WRONGTYPE, which
\* redis-py raises as ResponseError, a RedisError
WrongType(all_keys) == \E i \in 1..Len(all_keys) : all_keys[i] \in StringKeys

\* the try block of get_all_subscriptions and its except clause
Listed(all_keys) == IF WrongType(all_keys) THEN <<>> ELSE CollectActive(all_keys)

get_all_subscriptions(p) ==
    /\ Ready(p)
    /\ StartCall(p, CallRec("get_all", "", <<>>, FALSE))
    /\ pre' = [pre EXCEPT ![p] = EmptyHash]
    /\ IF redis_up
       THEN \E all_keys \in ListsOfSet(AllKeys) :
                ret' = [ret EXCEPT ![p] = Returned("value", <<>>, Listed(all_keys))]
       ELSE ret' = [ret EXCEPT ![p] = Returned("value", <<>>, <<>>)]
    /\ pc' = [pc EXCEPT ![p] = "done"]
    /\ UNCHANGED <<store, redis_up, locals, notStore>>

----------------------------------------------------------------------------
(* The Redis server going away and coming back                             *)

redis_fail ==
    /\ redis_up
    /\ redis_up' = FALSE
    /\ UNCHANGED <<store, pc, call, locals, ret, pre, notStore>>

redis_recover ==
    /\ ~redis_up
    /\ redis_up' = TRUE
    /\ UNCHANGED <<store, pc, call, locals, ret, pre, notStore>>

----------------------------------------------------------------------------

(* check_domains (domain_check.py): one loop iteration per step            *)

MaxDomains == 2

Runs == {1, 2}
OneRun == {1}

\* notification_threshold_days passed by the caller
Thresholds == {2, 3}

\* days between now and the expiry date the WHOIS answer carries
DaysSet == -1..4

Inputs == {"a.com", "www.a.com", "b.com", "not a domain!!", "bad_label.a.com"}
PairInputs == {"a.com", "b.com"}

\* tldextract: f"{ext.domain}.{ext.suffix}" if ext.suffix else domain. tldextract splits
\* at the dots and the public suffix and does not look at the characters of a label:
\* "not a domain!!" has no suffix and stays, "bad_label.a.com" gives "a.com"
MainDomain(domain) == IF domain \in {"www.a.com", "bad_label.a.com"} THEN "a.com" ELSE domain

\* domain_pattern.match(domain) in is_valid_domain: labels of [a-z0-9-] joined by dots
FormatOk(domain) == domain \in {"a.com", "www.a.com", "b.com"}

\* is_valid_domain issues DNS queries (socket.gethostbyname, resolver.resolve) only
\* after the format test has passed
DnsQueried(domain) == FormatOk(domain)

\* faulty variant: the format test is missing
is_valid_domain_dns_only(domain, dns_ok) == dns_ok

\* is_valid_domain: the format test, then DNS resolution (dns_ok is the network's answer)
is_valid_domain(domain, dns_ok) == FormatOk(domain) /\ dns_ok

\* what `await check_domain_expiry(domain)` gives: a WHOIS record whose expiration_date
\* is days away, or an exception
\* what `json.loads(await check_domain_expiry(domain))` gives check_domains; dates
\* holds the members of an expiration_date that WHOIS reported as a list
WhoisOk(days) == [kind |-> "ok", days |-> days, dates |-> <<>>]
WhoisRaises == [kind |-> "raises", days |-> 0, dates |-> <<>>]
WhoisList(dates) == [kind |-> "list", days |-> 0, dates |-> dates]
NoLookup == [kind |-> "none", days |-> 0, dates |-> <<>>]

\* what the WHOIS parser found: one expiration date, a list of them (its members
\* parsed to datetime objects or left as the strings of the response), or a failure
EntryDate(days) == [kind |-> "date", parsed |-> TRUE, days |-> days, dates |-> <<>>]
EntryList(dates, parsed) == [kind |-> "list", parsed |-> parsed, days |-> 0, dates |-> dates]
EntryFails == [kind |-> "fails", parsed |-> FALSE, days |-> 0, dates |-> <<>>]

DateLists == {<<1, 3>>, <<4, -1>>}

WhoisEntries ==
    {EntryDate(n) : n \in DaysSet} \cup {EntryFails}
        \cup {EntryList(ds, b) : ds \in DateLists, b \in BOOLEAN}

\* check_domain_expiry formats a date attribute only when it is one datetime; a
\* list is handed to json.dumps as it is, whose `default` handler returns a tuple
\* holding the datetime again, so a list of datetimes ends in ValueError (circular
\* reference), re-raised to the caller. A list of strings is serialised as such.
check_domain_expiry(entry) ==
    IF entry.kind = "fails" THEN WhoisRaises
    ELSE IF entry.kind = "list"
    THEN IF entry.parsed THEN [WhoisRaises EXCEPT !.dates = entry.dates]
         ELSE WhoisList(entry.dates)
    ELSE WhoisOk(entry.days)

WhoisAnswers == {check_domain_expiry(e) : e \in WhoisEntries}
PairAnswers == {WhoisOk(n) : n \in {-1, 2, 3, 4}}

\* a result dict; lookup is history: the WHOIS answer the record was built from
Edict(domain, days_left, status, lookup) ==
    [domain |-> domain, days_left |-> days_left, status |-> status, lookup |-> lookup]

InvalidEdict(domain) == Edict(domain, -1, "Invalid domain", NoLookup)

\* faulty variant: the failure is recorded as an expiry status
ErrorEdictAsExpiring(domain, lookup) == Edict(domain, 0, "Expiring today!", lookup)

ErrorEdict(domain, lookup) == Edict(domain, 0, "Error", lookup)

\* what the latest iteration did (history): its input, and whether it issued DNS
\* queries and awaited check_domain_expiry
Iter(input, dns, whois) == [input |-> input, dns |-> dns, whois |-> whois]
NoIter == Iter("", FALSE, FALSE)

CdIdle ==
    [pc |-> "idle", threshold |-> 0, n |-> 0, status |-> "unbound",
     rdict |-> {}, results |-> <<>>, last |-> NoIter]

CheckInit == cd = [r \in Runs |-> CdIdle]

check_domains_begin(r, notification_threshold_days) ==
    /\ cd[r].pc \in {"idle", "done"}
    /\ cd' = [cd EXCEPT ![r] = [CdIdle EXCEPT !.pc = "loop",
                                               !.threshold = notification_threshold_days]]
    /\ UNCHANGED notCheck

\* the if/elif chain; when no branch is taken the local `status` keeps the value an
\* earlier iteration gave it, or stays unbound
StatusBranch(domain_days, notification_threshold_days, status) ==
    IF domain_days < 0 THEN "Expired"
    ELSE IF domain_days = 0 THEN "Expiring today!"
    ELSE IF domain_days < notification_threshold_days THEN "Expiring soon!"
    ELSE IF domain_days > notification_threshold_days THEN "Valid domain"
    ELSE status

MinOf(dates) ==
    CHOOSE m \in {dates[j] : j \in 1..Len(dates)} :
        \A j \in 1..Len(dates) : m <= dates[j]

\* the value of the local domain_expiry before the subtraction: `min()` of a list,
\* whose members json.loads delivered as strings, or the datetime that strptime
\* made of a string
domain_expiry(w) ==
    IF w.kind = "list" THEN [type |-> "str", days |-> MinOf(w.dates)]
    ELSE [type |-> "datetime", days |-> w.days]

\* one iteration of `for domain in domains_list`, the except clause included
check_domains_iter(r, input, dns_ok, w) ==
    /\ cd[r].pc = "loop"
    /\ cd[r].n < MaxDomains
    /\ LET domain == MainDomain(input)
           valid == is_valid_domain(domain, dns_ok)
           c == [cd[r] EXCEPT !.last = Iter(input, DnsQueried(domain),
                                            valid /\ domain \notin cd[r].rdict)]
           expiry == domain_expiry(w)
           status == StatusBranch(expiry.days, c.threshold, c.status)
           Add(edict, st) == [c EXCEPT !.n = @ + 1,
                                       !.status = st,
                                       !.rdict = @ \cup {domain},
                                       !.results = Append(@, edict)]
       IN  cd' = [cd EXCEPT ![r] =
                    IF ~valid
                    THEN IF domain \notin c.rdict
                         THEN Add(InvalidEdict(domain), c.status)
                         ELSE [c EXCEPT !.n = @ + 1]
                    ELSE IF domain \in c.rdict
                    THEN [c EXCEPT !.n = @ + 1]
                    ELSE IF w.kind = "raises"
                    THEN Add(ErrorEdict(domain, w), c.status)
                    ELSE IF expiry.type # "datetime"
                    THEN \* `domain_expiry - datetime.now()` raises TypeError
                         Add(ErrorEdict(domain, w), c.status)
                    ELSE IF status = "unbound"
                    THEN Add(ErrorEdict(domain, w), c.status)
                    ELSE Add(Edict(domain, expiry.days, status, w), status)]
    /\ UNCHANGED notCheck

check_domains_return(r) ==
    /\ cd[r].pc = "loop"
    /\ cd' = [cd EXCEPT ![r].pc = "done"]
    /\ UNCHANGED notCheck

----------------------------------------------------------------------------

(* enhanced_cached.decorator around check_domain_expiry                    *)
(* Each step runs from one await to the next: the cache read, the wrapped  *)
(* function, the cache write.                                              *)

MaxResolves == 2
MaxTime == 43200
MaxTasks == 2

\* @enhanced_cached(ttl=86400, ...) on check_domain_expiry
DefaultTTL == 86400

\* ttl=None of decorator(); the TTLs a caller passes
NoneTTL == -1
CallTTLs == {NoneTTL, 43200}

TickSteps == {43200}

CacheProcs == {1, 2}
OneCaller == {1}

CacheDomains == {"a.com"}

\* custom_key_builder: qualname ":" args
custom_key_builder(domain) == <<"check_domain_expiry", domain>>

CacheKeys == {custom_key_builder(d) : d \in CacheDomains}

\* the n-th answer of the wrapped function
WhoisValue(n) == <<"whois", n>>

\* JsonSerializer.dumps / loads
dumps(value) == <<"json", value>>
loads(data) == IF data = None THEN None ELSE data[2]

\* skip_cache_func=lambda x: False
skip_cache_func(result) == FALSE

Opts(domain, bypass_cache, force_refresh, cache_read, cache_write, wait, ttl) ==
    [domain |-> domain, bypass_cache |-> bypass_cache, force_refresh |-> force_refresh,
     cache_read |-> cache_read, cache_write |-> cache_write,
     aiocache_wait_for_write |-> wait, ttl |-> ttl]

\* the keyword arguments a call is made with; cache_read is only looked at on the
\* normal path and aiocache_wait_for_write only when the call writes, so the calls
\* that bypass the cache and the calls that do not write are made with the default
AllOpts ==
    {o \in {Opts(d, b, f, r, w, a, t) :
                d \in CacheDomains, b \in BOOLEAN, f \in BOOLEAN, r \in BOOLEAN,
                w \in BOOLEAN, a \in BOOLEAN, t \in CallTTLs} :
        /\ (o.bypass_cache \/ o.force_refresh) => o.cache_read
        /\ ~o.cache_write => o.aiocache_wait_for_write}

\* the same without a ttl passed
NoTTLOpts == {o \in AllOpts : o.ttl = NoneTTL}

DefaultOpts(domain, ttl) == Opts(domain, FALSE, FALSE, TRUE, TRUE, TRUE, ttl)

\* what the caller's previous call was and left behind (history): "normal" for a call
\* with default options, "forced" for force_refresh with the write awaited, the value it
\* returned and the expiry of the entry it wrote before returning; "raised" for a call
\* that looked into the cache and then failed in the resolver, "raised_bypass" for one
\* that failed in the resolver without having looked
NoPrev == [mode |-> "other", domain |-> "", value |-> None, expires_at |-> 0]

\* wrote_until and disturbed are history: until when the entry written by this call
\* lives, and whether a background task touched the cache since this call began
CqIdle ==
    [pc |-> "idle", opts |-> DefaultOpts("", NoneTTL), result |-> None,
     ret |-> [kind |-> "none", value |-> None],
     wrote_until |-> 0, disturbed |-> FALSE, prev |-> NoPrev]

PrevOf(c) ==
    LET mode == IF c.pc # "done" \/ c.disturbed THEN "other"
                ELSE IF c.ret.kind = "raises"
                THEN IF ~(c.opts.bypass_cache \/ c.opts.force_refresh) /\ c.opts.cache_read
                     THEN "raised" ELSE "raised_bypass"
                ELSE IF c.ret.kind # "value" THEN "other"
                ELSE IF c.opts = DefaultOpts(c.opts.domain, c.opts.ttl) THEN "normal"
                ELSE IF c.opts.force_refresh /\ c.opts.cache_write
                           /\ c.opts.aiocache_wait_for_write THEN "forced"
                ELSE "other"
    IN  IF mode = "other" THEN NoPrev
        ELSE [mode |-> mode, domain |-> c.opts.domain, value |-> c.ret.value,
              expires_at |-> c.wrote_until]

CacheInit ==
    /\ cache = [k \in CacheKeys |-> NoEntry]
    /\ cache_up = TRUE
    /\ now = 0
    /\ whois_calls = 0
    /\ cq = [p \in CacheProcs |-> CqIdle]
    /\ tasks = {}

KeyOfCall(c) == custom_key_builder(c.opts.domain)

\* self._calculate_ttl(result) with ttl_func=None
calculate_ttl(result) == DefaultTTL

\* faulty variant: the ttl passed with the call is ignored
effective_ttl_default(opts, result) == calculate_ttl(result)

\* effective_ttl of decorator(), then `ttl if ttl is not None else self.ttl` of set_in_cache
effective_ttl(opts, result) ==
    IF opts.ttl # NoneTTL THEN opts.ttl ELSE calculate_ttl(result)

\* faulty variant: the expiry comparison is inverted
LiveInverted(entry) == entry # NoEntry /\ entry.expires_at < now

Live(entry) == entry # NoEntry /\ now < entry.expires_at

\* faulty variant: bypass_cache and force_refresh do not keep the call from reading
cached_call_reads(p, opts) ==
    /\ cq[p].pc \in {"idle", "done"}
    /\ Cardinality(tasks) < MaxTasks
    /\ cq' = [cq EXCEPT ![p] =
                [CqIdle EXCEPT
                   !.pc = IF opts.cache_read THEN "read" ELSE "resolve",
                   !.opts = opts,
                   !.prev = PrevOf(cq[p])]]
    /\ UNCHANGED <<cache, cache_up, now, whois_calls, tasks, notCache>>

\* decorator(): entry, up to the first await
cached_call(p, opts) ==
    /\ cq[p].pc \in {"idle", "done"}
    /\ Cardinality(tasks) < MaxTasks
    /\ cq' = [cq EXCEPT ![p] =
                [CqIdle EXCEPT
                   !.pc = IF opts.bypass_cache \/ opts.force_refresh THEN "resolve"
                          ELSE IF opts.cache_read THEN "read"
                          ELSE "resolve",
                   !.opts = opts,
                   !.prev = PrevOf(cq[p])]]
    /\ UNCHANGED <<cache, cache_up, now, whois_calls, tasks, notCache>>

\* value = await self.get_from_cache(key), and the cache-hit branch
get_from_cache(p) ==
    /\ cq[p].pc = "read"
    /\ LET c == cq[p]
           key == KeyOfCall(c)
           value == IF cache_up /\ Live(cache[key]) THEN loads(cache[key].data) ELSE None
       IN  IF value # None
           THEN /\ cq' = [cq EXCEPT ![p].pc = "done",
                                    ![p].ret = [kind |-> "value", value |-> value]]
                /\ tasks' = IF c.opts.ttl # NoneTTL
                            THEN tasks \cup {[kind |-> "update_ttl", key |-> key,
                                              value |-> None, ttl |-> c.opts.ttl]}
                            ELSE tasks
           ELSE /\ cq' = [cq EXCEPT ![p].pc = "resolve"]
                /\ UNCHANGED tasks
    /\ UNCHANGED <<cache, cache_up, now, whois_calls, notCache>>

\* faulty variant: a failure of the resolver invalidates the key's entry
call_resolver_invalidates(p, raises) ==
    /\ cq[p].pc = "resolve"
    /\ LET c == cq[p]
           key == KeyOfCall(c)
           result == WhoisValue(whois_calls + 1)
           bypassing == c.opts.bypass_cache \/ c.opts.force_refresh
           writes == IF bypassing
                     THEN ~skip_cache_func(result) /\ c.opts.cache_write
                              /\ (c.opts.force_refresh \/ c.opts.bypass_cache)
                     ELSE ~skip_cache_func(result) /\ c.opts.cache_write
       IN  IF raises
           THEN /\ cq' = [cq EXCEPT ![p].pc = "done",
                                    ![p].ret = [kind |-> "raises", value |-> None]]
                /\ cache' = [cache EXCEPT ![key] = NoEntry]
                /\ UNCHANGED <<whois_calls, tasks>>
           ELSE /\ whois_calls < MaxResolves
                /\ UNCHANGED cache
                /\ whois_calls' = whois_calls + 1
                /\ IF writes /\ c.opts.aiocache_wait_for_write
                   THEN /\ cq' = [cq EXCEPT ![p].pc = "write",
                                            ![p].result = result]
                        /\ UNCHANGED tasks
                   ELSE /\ cq' = [cq EXCEPT ![p].pc = "done",
                                            ![p].result = result,
                                            ![p].ret = [kind |-> "value", value |-> result]]
                        /\ tasks' = IF writes
                                    THEN tasks \cup {[kind |-> "set", key |-> key,
                                                      value |-> result,
                                                      ttl |-> effective_ttl(c.opts, result)]}
                                    ELSE tasks
    /\ UNCHANGED <<cache_up, now, notCache>>

\* result = await f(*args, **kwargs), and the decision to write that follows it
call_resolver(p, raises) ==
    /\ cq[p].pc = "resolve"
    /\ LET c == cq[p]
           key == KeyOfCall(c)
           result == WhoisValue(whois_calls + 1)
           bypassing == c.opts.bypass_cache \/ c.opts.force_refresh
           writes == IF bypassing
                     THEN ~skip_cache_func(result) /\ c.opts.cache_write
                              /\ (c.opts.force_refresh \/ c.opts.bypass_cache)
                     ELSE ~skip_cache_func(result) /\ c.opts.cache_write
       IN  IF raises
           THEN /\ cq' = [cq EXCEPT ![p].pc = "done",
                                    ![p].ret = [kind |-> "raises", value |-> None]]
                /\ UNCHANGED <<whois_calls, tasks>>
           ELSE /\ whois_calls < MaxResolves
                /\ whois_calls' = whois_calls + 1
                /\ IF writes /\ c.opts.aiocache_wait_for_write
                   THEN /\ cq' = [cq EXCEPT ![p].pc = "write",
                                            ![p].result = result]
                        /\ UNCHANGED tasks
                   ELSE /\ cq' = [cq EXCEPT ![p].pc = "done",
                                            ![p].result = result,
                                            ![p].ret = [kind |-> "value", value |-> result]]
                        /\ tasks' = IF writes
                                    THEN tasks \cup {[kind |-> "set", key |-> key,
                                                      value |-> result,
                                                      ttl |-> effective_ttl(c.opts, result)]}
                                    ELSE tasks
    /\ UNCHANGED <<cache, cache_up, now, notCache>>

\* faulty variant: an existing entry keeps the expiry it had (SET ... KEEPTTL)
cache_set_keepttl(key, value, ttl) ==
    IF cache_up
    THEN [cache EXCEPT ![key] =
            Entry(dumps(value), IF @ # NoEntry THEN @.expires_at ELSE now + ttl)]
    ELSE cache

\* faulty variant: a write does not replace an entry that is there (SET ... NX)
cache_set_nx(key, value, ttl) ==
    IF cache_up /\ cache[key] = NoEntry
    THEN [cache EXCEPT ![key] = Entry(dumps(value), now + ttl)]
    ELSE cache

\* self.cache.set(key, value, ttl=ttl) inside set_in_cache's try/except
cache_set(key, value, ttl) ==
    IF cache_up
    THEN [cache EXCEPT ![key] = Entry(dumps(value), now + ttl)]
    ELSE cache

\* faulty variant: the exception of a failed cache.set reaches the caller
set_in_cache_propagates(p) ==
    /\ cq[p].pc = "write"
    /\ LET c == cq[p]
           ttl == effective_ttl(c.opts, c.result)
       IN  /\ cache' = cache_set(KeyOfCall(c), c.result, ttl)
           /\ cq' = [cq EXCEPT ![p].pc = "done",
                               ![p].ret = IF cache_up
                                          THEN [kind |-> "value", value |-> c.result]
                                          ELSE [kind |-> "raises", value |-> None],
                               ![p].wrote_until = IF cache_up THEN now + ttl ELSE 0]
    /\ UNCHANGED <<cache_up, now, whois_calls, tasks, notCache>>

\* await self.set_in_cache(key, result, effective_ttl); return result
set_in_cache(p) ==
    /\ cq[p].pc = "write"
    /\ LET c == cq[p]
           ttl == effective_ttl(c.opts, c.result)
       IN  /\ cache' = cache_set(KeyOfCall(c), c.result, ttl)
           /\ cq' = [cq EXCEPT ![p].pc = "done",
                               ![p].ret = [kind |-> "value", value |-> c.result],
                               ![p].wrote_until = IF cache_up THEN now + ttl ELSE 0]
    /\ UNCHANGED <<cache_up, now, whois_calls, tasks, notCache>>

\* self.cache.expire(key, ttl) inside _update_ttl's try/except
cache_expire(key, ttl) ==
    IF cache_up /\ Live(cache[key])
    THEN [cache EXCEPT ![key].expires_at = now + ttl]
    ELSE cache

\* the event loop runs a task made by asyncio.create_task
run_task(t) ==
    /\ t \in tasks
    /\ tasks' = tasks \ {t}
    /\ cache' = IF t.kind = "set" THEN cache_set(t.key, t.value, t.ttl)
                ELSE cache_expire(t.key, t.ttl)
    /\ cq' = [p \in CacheProcs |-> [cq[p] EXCEPT !.disturbed = TRUE]]
    /\ UNCHANGED <<cache_up, now, whois_calls, notCache>>

\* time passes; Redis drops the entries whose TTL has run out
tick(dt) ==
    /\ now + dt <= MaxTime
    /\ now' = now + dt
    /\ cache' = [k \in CacheKeys |->
                    IF cache[k] # NoEntry /\ cache[k].expires_at <= now + dt
                    THEN NoEntry ELSE cache[k]]
    /\ UNCHANGED <<cache_up, whois_calls, cq, tasks, notCache>>

\* the cache's Redis server becomes unreachable: cache.get, cache.set and cache.expire
\* raise until it is back; the entries it holds are kept
cache_fail ==
    /\ cache_up
    /\ cache_up' = FALSE
    /\ UNCHANGED <<cache, now, whois_calls, cq, tasks, notCache>>

cache_recover ==
    /\ ~cache_up
    /\ cache_up' = TRUE
    /\ UNCHANGED <<cache, now, whois_calls, cq, tasks, notCache>>

----------------------------------------------------------------------------

(* NotificationScheduler and its entry points                              *)
(* The run is synchronous code: one step lists the subscriptions, one step *)
(* is one iteration of the loop over them, one step is the entry point     *)
(* taking over what run_scheduled_check returned or raised.                *)

\* the callers of run_scheduled_check: scheduled_domain_check of main.py, which awaits
\* what it returns, and main of run_scheduler.py, which does not
Entries == {"scheduled_domain_check", "run_scheduler.main"}

\* int(os.environ.get("NOTIFICATION_THRESHOLD_DAYS", 30))
DefaultThreshold == 30

\* check_domains is `async def`: called without await it returns a coroutine object,
\* and none of its body runs
Coroutine(fn, args) == [kind |-> "coroutine", fn |-> fn, args |-> args]
ListOf(items) == [kind |-> "list", items |-> items]

\* `for x in value`: a list is iterated, a coroutine object raises TypeError
Iterable(value) == value.kind = "list"

\* what SSLChecker.check_domain_certificates answers for one domain; it catches its
\* own exceptions and returns the records it has
Cert(hostname, days_to_expire, status) ==
    [hostname |-> hostname, days_to_expire |-> days_to_expire, status |-> status]
CertAnswers == {<<>>, <<Cert("h", 5, "Expiring soon!")>>, <<Cert("h", 90, "Valid SSL")>>}

\* the loops that pick the records expiring soon: `result["status"] = "Expiring Soon"`
\* is an assignment to the record held by the list that is iterated
RECURSIVE MarkExpiring(_, _, _)
MarkExpiring(results, days_field, days_threshold) ==
    IF results = <<>> THEN <<>>
    ELSE LET result == Head(results)
             marked == IF result[days_field] < days_threshold /\ result[days_field] > 0
                       THEN [result EXCEPT !.status = "Expiring Soon"]
                       ELSE result
         IN  <<marked>> \o MarkExpiring(Tail(results), days_field, days_threshold)

\* _send_notification: the result record; sent only with SMTP credentials configured
\* and the SMTP conversation succeeding
send_notification(email, expiring_domains, expiring_certs, smtp_configured, smtp_ok) ==
    [email |-> email, sent |-> smtp_configured /\ smtp_ok,
     expiring_domains_count |-> Len(expiring_domains),
     expiring_certs_count |-> Len(expiring_certs)]

NoSummary == <<>>
NoOutcome == [kind |-> "none"]

\* subscriptions is what get_all_subscriptions returned, n how many of them the loop has
\* been through; list_failed, skipped, rendered and emails_sent are history
RunIdle ==
    [pc |-> "idle", entry |-> "", subscriptions |-> <<>>, n |-> 0,
     list_failed |-> FALSE, skipped |-> {}, notification_results |-> <<>>,
     rendered |-> <<>>, emails_sent |-> <<>>,
     summary |-> NoSummary, outcome |-> NoOutcome, artifacts |-> <<>>]

SchedInit == run = RunIdle

\* run_scheduled_check up to the loop of check_domains_and_notify:
\* subscriptions = self.notification_handler.get_all_subscriptions()
run_scheduled_check(entry) ==
    /\ run.pc = "idle"
    /\ \E subscriptions \in
            IF redis_up THEN {Listed(all_keys) : all_keys \in ListsOfSet(AllKeys)}
            ELSE {<<>>} :
          run' = [RunIdle EXCEPT !.pc = "loop", !.entry = entry,
                                 !.subscriptions = subscriptions,
                                 !.list_failed = ~redis_up \/ StringKeys # {}]
    /\ UNCHANGED notSched

\* one iteration of `for subscription in subscriptions:`
notify_next ==
    /\ run.pc = "loop"
    /\ run.n < Len(run.subscriptions)
    /\ LET subscription == run.subscriptions[run.n + 1]
           email == subscription.email
           domains == subscription.domains
           domain_results == Coroutine("check_domains", <<domains, DefaultThreshold>>)
       IN  IF domains = <<>>
           THEN run' = [run EXCEPT !.n = @ + 1, !.skipped = @ \cup {email}]
           ELSE \E ssl_results \in CertAnswers, smtp_configured \in BOOLEAN,
                   smtp_ok \in BOOLEAN :
                  IF ~Iterable(domain_results)
                  THEN run' = [run EXCEPT !.pc = "raised"]
                  ELSE LET marked_domains ==
                               MarkExpiring(domain_results.items, "days_left",
                                            DefaultThreshold)
                           marked_certs ==
                               MarkExpiring(ssl_results, "days_to_expire",
                                            DefaultThreshold)
                           result == send_notification(email, marked_domains, marked_certs,
                                                       smtp_configured, smtp_ok)
                       IN  run' = [run EXCEPT
                                     !.n = @ + 1,
                                     !.notification_results = Append(@, result),
                                     !.rendered =
                                         Append(@, [email |-> email,
                                                    expiring_domains |-> marked_domains,
                                                    expiring_certs |-> marked_certs]),
                                     !.emails_sent =
                                         IF result.sent THEN Append(@, email) ELSE @]
    /\ UNCHANGED notSched

\* the loop is over: check_domains_and_notify returns notification_results and
\* run_scheduled_check returns the summary
run_summary ==
    /\ run.pc = "loop"
    /\ run.n = Len(run.subscriptions)
    /\ run' = [run EXCEPT !.pc = "returned",
                          !.summary = [threshold_days |-> DefaultThreshold,
                                       notifications_sent |-> Len(run.notification_results),
                                       details |-> run.notification_results]]
    /\ UNCHANGED notSched

\* the entry point takes over. main of run_scheduler.py uses the summary and writes it
\* to results/notification_check_<timestamp>.json, and has no handler for an exception.
\* scheduled_domain_check does `await scheduler.run_scheduled_check()`: awaiting the
\* dict that is returned raises TypeError, and every exception inside its try block
\* ends in `return {"error": str(e)}` before the file is written.
entry_returns ==
    /\ run.pc \in {"returned", "raised"}
    /\ run' = IF run.entry = "run_scheduler.main"
              THEN IF run.pc = "returned"
                   THEN [run EXCEPT !.pc = "ended",
                                    !.outcome = [kind |-> "summary"],
                                    !.artifacts = Append(@, run.summary.details)]
                   ELSE [run EXCEPT !.pc = "ended", !.outcome = [kind |-> "crash"]]
              ELSE [run EXCEPT !.pc = "ended", !.outcome = [kind |-> "error"]]
    /\ UNCHANGED notSched

\* the run is cancelled or the process is interrupted inside the loop: CancelledError
\* and KeyboardInterrupt are not Exceptions, and no finally clause writes anything
run_cancel ==
    /\ run.pc = "loop"
    /\ run' = [run EXCEPT !.pc = "ended", !.outcome = [kind |-> "cancelled"]]
    /\ UNCHANGED notSched

----------------------------------------------------------------------------

\* ---------------------------------------------------------------------------
\* ssl_check.py: SSLChecker
\* ---------------------------------------------------------------------------

SslDomains == {"a.com"}
SslThresholds == {3}
\* stands for the list of ten prefixes ('www', 'mail', ...)
common_subdomains == {"www"}
CnameTargets == {"cdn.net"}

\* host names as their dotted parts: f"{subdomain}.{domain}" and the domain itself
FullDomain(subdomain, domain) == <<subdomain, domain>>
RootDomain(domain) == <<domain>>

\* what the DNS answers during get_subdomains: whether dns.resolver.Resolver()
\* could be built, whether the domain has A/AAAA records, the targets of its
\* CNAME records, and the common prefixes that resolve
Dns(resolver_ok, root, cname, prefixes) ==
    [resolver_ok |-> resolver_ok, root |-> root, cname |-> cname, prefixes |-> prefixes]
DnsAnswers ==
    {Dns(ro, rt, cn, pf) : ro \in BOOLEAN, rt \in BOOLEAN,
                           cn \in SUBSET CnameTargets, pf \in SUBSET common_subdomains}
AllProbesFail(dns) == ~dns.root /\ dns.cname = {} /\ dns.prefixes = {}

\* every resolve() is in its own try/except, the whole body in another one
get_subdomains(domain, dns) ==
    IF ~dns.resolver_ok THEN {}
    ELSE (IF dns.root THEN {RootDomain(domain)} ELSE {})
            \cup {RootDomain(t) : t \in dns.cname}
            \cup {FullDomain(sd, domain) : sd \in dns.prefixes}

\* faulty variant: the root domain is checked only when it was discovered
candidates_discovered_only(domain, dns) == get_subdomains(domain, dns)

\* domains_to_check, after `domains_to_check.add(domain)`
candidates(domain, dns) == get_subdomains(domain, dns) \cup {RootDomain(domain)}

\* how connecting to a host and reading its certificate ends: a certificate with
\* its days to expiry, or an exception with its message
Handshake(kind, days, details) == [kind |-> kind, days |-> days, details |-> details]
SslDays == {-1, 0, 2, 3, 4}
Handshakes ==
    {Handshake("ok", n, "") : n \in SslDays}
        \cup {Handshake("gaierror", 0, "Name or service not known"),
              Handshake("timeout", 0, "timed out"),
              Handshake("SSLError", 0, "handshake failure"),
              Handshake("Exception", 0, "Connection refused")}

\* a dict key that is not there
Absent == <<>>

\* the dict get_certificate_info returns; a status is the pieces of its f-string;
\* handshake is history
CertInfo(hostname, status, error_type, error_details, days_to_expire, handshake) ==
    [hostname |-> hostname, domain |-> Absent, status |-> status,
     error_type |-> error_type, error_details |-> error_details,
     days_to_expire |-> days_to_expire, handshake |-> handshake]

get_certificate_info(hostname, h) ==
    IF h.kind = "ok"
    THEN CertInfo(hostname, Absent, Absent, Absent, h.days, h)
    ELSE IF h.kind \in {"gaierror", "timeout"}
    THEN CertInfo(hostname, <<"Connection error: ", h.details>>, <<"network">>,
                  <<h.details>>, -1, h)
    ELSE IF h.kind = "SSLError"
    THEN CertInfo(hostname, <<"SSL error: ", h.details>>, <<"ssl">>, <<h.details>>, -1, h)
    ELSE CertInfo(hostname, <<"Certificate check failed: ", h.details>>, <<"unknown">>,
                  <<h.details>>, -1, h)

\* faulty variant: a host whose check failed gets no record
DictTruth_ok_only(r1) == r1.error_type = Absent

\* `if r1:` a dict with keys is true
DictTruth(r1) == TRUE

\* the if/elif chain of check_domain_certificates; without a branch taken the key
\* "status" stays as get_certificate_info left it
SslStatusBranch(days_left, notification_threshold_days, status) ==
    IF days_left < 0 THEN <<"Expired">>
    ELSE IF days_left = 0 THEN <<"Expiring today!">>
    ELSE IF days_left < notification_threshold_days THEN <<"Expiring soon!">>
    ELSE IF days_left > notification_threshold_days THEN <<"Valid SSL">>
    ELSE status

SslIdle ==
    [pc |-> "idle", domain |-> "", threshold |-> 0, dns |-> Dns(TRUE, FALSE, {}, {}),
     domains_to_check |-> {}, todo |-> {}, results |-> <<>>]

SslInit == ssl = SslIdle

\* check_domain_certificates up to the for loop
check_domain_certificates_begin(domain, notification_threshold_days, dns) ==
    /\ ssl.pc \in {"idle", "done"}
    /\ ssl' = [SslIdle EXCEPT !.pc = "loop", !.domain = domain,
                              !.threshold = notification_threshold_days, !.dns = dns,
                              !.domains_to_check = candidates(domain, dns),
                              !.todo = candidates(domain, dns)]
    /\ UNCHANGED notSsl

\* one iteration of `for d in domains_to_check` (a set: any order)
check_certificate(d, h) ==
    /\ ssl.pc = "loop"
    /\ d \in ssl.todo
    /\ LET r1 == get_certificate_info(d, h)
           days_left == r1.days_to_expire
           classified == [r1 EXCEPT !.domain = <<ssl.domain>>,
                                    !.status = SslStatusBranch(days_left, ssl.threshold, @)]
           final == IF classified.error_type # Absent
                    THEN [classified EXCEPT !.status = <<"Error: ">> \o classified.error_details]
                    ELSE classified
       IN  ssl' = [ssl EXCEPT !.todo = @ \ {d},
                              !.results = IF DictTruth(r1) THEN Append(@, final) ELSE @]
    /\ UNCHANGED notSsl

check_domain_certificates_return ==
    /\ ssl.pc = "loop"
    /\ ssl.todo = {}
    /\ ssl' = [ssl EXCEPT !.pc = "done"]
    /\ UNCHANGED notSsl

\* ---------------------------------------------------------------------------
\* example_projects/.../notification_handler.py: the handler that notifies at once
\* ---------------------------------------------------------------------------

MaxThreads == 2

\* a thread running _send_notification_in_background(email, domains); checks_run,
\* send_attempted and error are history
Thread(email, domains) ==
    [email |-> email, domains |-> domains, pc |-> "started",
     checks_run |-> FALSE, send_attempted |-> FALSE, error |-> "none"]

ThreadInit == threads = <<>>

\* `.get(...)` on the value: a dict has it, a coroutine object raises AttributeError
HasGet(value) == value.kind = "dict"

\* the last hset of this tree's register_domains and what follows it: with a
\* non-empty all_domains the thread is started and the call returns at once
register_hset_status_notify(p) ==
    /\ pc[p] = "reg_hset_status"
    /\ Len(threads) < MaxThreads
    /\ IF redis_up
       THEN /\ store' = [store EXCEPT ![hash_email(call[p].email)] =
                                         hset(@, "status", "active")]
            /\ ret' = [ret EXCEPT ![p] = Returned("success", locals[p], <<>>)]
            /\ threads' = LET new_domains == locals[p]
                          IN  IF new_domains # <<>>
                              THEN Append(threads, Thread(call[p].email, new_domains))
                              ELSE threads
       ELSE /\ ret' = [ret EXCEPT ![p] = HTTPException]
            /\ UNCHANGED <<store, threads>>
    /\ pc' = [pc EXCEPT ![p] = "done"]
    /\ UNCHANGED <<redis_up, call, locals, pre, checkVars, cacheVars, schedVars,
                   sslVars, decoVars>>

\* the thread's target: send_immediate_notification is `async def` and is called
\* without await, so its body (the checks and _send_notification) does not run
send_notification_in_background(i) ==
    /\ i \in 1..Len(threads)
    /\ threads[i].pc = "started"
    /\ LET t == threads[i]
           notification_result == Coroutine("send_immediate_notification",
                                            <<t.email, t.domains>>)
       IN  threads' = [threads EXCEPT ![i] =
                         IF HasGet(notification_result)
                         THEN [t EXCEPT !.pc = "done", !.checks_run = TRUE,
                                        !.send_attempted = TRUE]
                         ELSE [t EXCEPT !.pc = "done", !.error = "AttributeError"]]
    /\ UNCHANGED <<storeVars, checkVars, cacheVars, schedVars, sslVars, decoVars>>

vars == <<storeVars, checkVars, cacheVars, schedVars, sslVars, decoVars, threadVars>>

\* enhanced_cached.__init__ stores the keyword update_ttl_on_hit (default True; the
\* decoration of check_domain_expiry does not pass it); nothing reads the attribute
DecoInit(flag) == update_ttl_on_hit = flag

Init == StoreInit /\ CheckInit /\ CacheInit /\ SchedInit /\ SslInit /\ DecoInit(TRUE)
        /\ ThreadInit

\* the same program with the decorator built with update_ttl_on_hit=False
InitNoUpdate ==
    StoreInit /\ CheckInit /\ CacheInit /\ SchedInit /\ SslInit /\ DecoInit(FALSE)
        /\ ThreadInit

\* the Subscription Store used by one client at a time, Redis staying up
StoreNext ==
    \/ \E p \in SeqProcs, e \in Emails, D \in DomainLists : register_domains(p, e, D)
    \/ \E p \in SeqProcs : register_hset_email(p)
    \/ \E p \in SeqProcs : register_hset_domains(p)
    \/ \E p \in SeqProcs : register_hset_status(p)
    \/ \E p \in SeqProcs, e \in Emails, D \in DomainLists, given \in BOOLEAN :
           (given \/ D = <<>>) /\ unregister_domains(p, e, D, given)
    \/ \E p \in SeqProcs : unregister_hset_domains(p)
    \/ \E p \in SeqProcs : unregister_hset_status(p)
    \/ \E p \in SeqProcs, e \in Emails : get_domains(p, e)
    \/ \E p \in SeqProcs : get_all_subscriptions(p)

SpecStore == Init /\ [][StoreNext]_vars

\* one subscriber, with the Redis server failing and recovering between commands
FailEmails == {"e1"}

StoreFailNext ==
    \/ \E p \in SeqProcs, e \in FailEmails, D \in DomainLists : register_domains(p, e, D)
    \/ \E p \in SeqProcs : register_hset_email(p)
    \/ \E p \in SeqProcs : register_hset_domains(p)
    \/ \E p \in SeqProcs : register_hset_status(p)
    \/ \E p \in SeqProcs, e \in FailEmails, D \in DomainLists, given \in BOOLEAN :
           (given \/ D = <<>>) /\ unregister_domains(p, e, D, given)
    \/ \E p \in SeqProcs : unregister_hset_domains(p)
    \/ \E p \in SeqProcs : unregister_hset_status(p)
    \/ \E p \in SeqProcs, e \in FailEmails : get_domains(p, e)
    \/ \E p \in SeqProcs : get_all_subscriptions(p)
    \/ redis_fail
    \/ redis_recover

SpecStoreFail == Init /\ [][StoreFailNext]_vars

\* two clients registering domains for one subscriber, Redis staying up:
\* every Redis command is one step, so the handlers interleave between commands
ConcEmails == {"e1"}
ConcLists == SeqsUpTo(Domains, 1)

ConcNext ==
    \/ \E p \in Procs, e \in ConcEmails, D \in ConcLists : register_domains(p, e, D)
    \/ \E p \in Procs : register_hset_email(p)
    \/ \E p \in Procs : register_hset_domains(p)
    \/ \E p \in Procs : register_hset_status(p)
    \/ \E p \in Procs, e \in ConcEmails : get_domains(p, e)

SpecConc == Init /\ [][ConcNext]_vars

\* one call of check_domains at a time
CheckNext ==
    \/ \E r \in OneRun, t \in Thresholds : check_domains_begin(r, t)
    \/ \E r \in OneRun, d \in Inputs, dns_ok \in BOOLEAN, w \in WhoisAnswers :
           check_domains_iter(r, d, dns_ok, w)
    \/ \E r \in OneRun : check_domains_return(r)

SpecCheck == Init /\ [][CheckNext]_vars

\* two calls of check_domains side by side, on input lists of their own
PairNext ==
    \/ \E r \in Runs, t \in Thresholds : check_domains_begin(r, t)
    \/ \E r \in Runs, d \in PairInputs, w \in PairAnswers :
           check_domains_iter(r, d, TRUE, w)
    \/ \E r \in Runs : check_domains_return(r)

SpecCheckPair == Init /\ [][PairNext]_vars

\* one caller of the cached check_domain_expiry, the cache's Redis staying up
CacheNext ==
    \/ \E p \in OneCaller, opts \in AllOpts : cached_call(p, opts)
    \/ \E p \in OneCaller : get_from_cache(p)
    \/ \E p \in OneCaller, raises \in BOOLEAN : call_resolver(p, raises)
    \/ \E p \in OneCaller : set_in_cache(p)
    \/ \E t \in tasks : run_task(t)
    \/ \E dt \in TickSteps : tick(dt)

SpecCache == Init /\ [][CacheNext]_vars

\* one caller, with the cache's Redis failing and recovering between the steps
CacheFailNext ==
    \/ \E p \in OneCaller, opts \in NoTTLOpts : cached_call(p, opts)
    \/ \E p \in OneCaller : get_from_cache(p)
    \/ \E p \in OneCaller, raises \in BOOLEAN : call_resolver(p, raises)
    \/ \E p \in OneCaller : set_in_cache(p)
    \/ \E t \in tasks : run_task(t)
    \/ cache_fail
    \/ cache_recover

SpecCacheFail == Init /\ [][CacheFailNext]_vars

\* two callers making normal calls for the same key side by side; the event loop
\* runs every coroutine that is ready, so a call that has begun keeps taking steps
PairOpts == {DefaultOpts(d, NoneTTL) : d \in CacheDomains}

CallStep(p) ==
    \/ get_from_cache(p)
    \/ \E raises \in BOOLEAN : call_resolver(p, raises)
    \/ set_in_cache(p)

CachePairNext ==
    \/ \E p \in CacheProcs, opts \in PairOpts : cached_call(p, opts)
    \/ \E p \in CacheProcs : get_from_cache(p)
    \/ \E p \in CacheProcs, raises \in BOOLEAN : call_resolver(p, raises)
    \/ \E p \in CacheProcs : set_in_cache(p)

SpecCachePair ==
    Init /\ [][CachePairNext]_vars /\ \A p \in CacheProcs : WF_vars(CallStep(p))

\* subscribers come and go while no run is on; then one scheduled run, from either
\* entry point, with Redis up or down
SchedEmails == {"e1", "e2"}
SchedLists == SeqsUpTo(Domains, 1)

SchedNext ==
    \/ \E p \in SeqProcs, e \in SchedEmails, D \in SchedLists :
           run.pc = "idle" /\ register_domains(p, e, D)
    \/ \E p \in SeqProcs : register_hset_email(p)
    \/ \E p \in SeqProcs : register_hset_domains(p)
    \/ \E p \in SeqProcs : register_hset_status(p)
    \/ \E p \in SeqProcs, e \in SchedEmails, D \in SchedLists, given \in BOOLEAN :
           run.pc = "idle" /\ (given \/ D = <<>>) /\ unregister_domains(p, e, D, given)
    \/ \E p \in SeqProcs : unregister_hset_domains(p)
    \/ \E p \in SeqProcs : unregister_hset_status(p)
    \/ run.pc = "idle" /\ redis_fail
    \/ run.pc = "idle" /\ redis_recover
    \/ \E entry \in Entries : (\A p \in SeqProcs : Ready(p)) /\ run_scheduled_check(entry)
    \/ notify_next
    \/ run_summary
    \/ entry_returns
    \/ run_cancel

SpecSched == Init /\ [][SchedNext]_vars

\* normal calls, with and without a per-call ttl, through a decorator built with
\* update_ttl_on_hit=False
HitOpts == {DefaultOpts(d, t) : d \in CacheDomains, t \in CallTTLs}

CacheNoUpdateNext ==
    \/ \E p \in OneCaller, opts \in HitOpts : cached_call(p, opts)
    \/ \E p \in OneCaller : get_from_cache(p)
    \/ \E p \in OneCaller, raises \in BOOLEAN : call_resolver(p, raises)
    \/ \E p \in OneCaller : set_in_cache(p)
    \/ \E t \in tasks : run_task(t)
    \/ \E dt \in TickSteps : tick(dt)

SpecCacheNoUpdate == InitNoUpdate /\ [][CacheNoUpdateNext]_vars

\* one client registering and unregistering through the handler that notifies at
\* once; a started thread is scheduled sooner or later
NotifyEmails == {"e1", "e2"}
NotifyLists == SeqsUpTo(Domains, 1)

NotifyNext ==
    \/ \E p \in SeqProcs, e \in NotifyEmails, D \in NotifyLists : register_domains(p, e, D)
    \/ \E p \in SeqProcs : register_hset_email(p)
    \/ \E p \in SeqProcs : register_hset_domains(p)
    \/ \E p \in SeqProcs : register_hset_status_notify(p)
    \/ \E p \in SeqProcs, e \in NotifyEmails : unregister_domains(p, e, <<>>, FALSE)
    \/ \E p \in SeqProcs : unregister_hset_status(p)
    \/ \E i \in 1..MaxThreads : send_notification_in_background(i)

SpecNotify ==
    Init /\ [][NotifyNext]_vars
         /\ \A i \in 1..MaxThreads : WF_vars(send_notification_in_background(i))

\* the subscription handler and the cache decorator at work on one Redis database
SharedEmails == {"e1"}
SharedLists == SeqsUpTo(Domains, 1)
SharedOpts == {DefaultOpts(d, NoneTTL) : d \in CacheDomains}

SharedNext ==
    \/ \E p \in SeqProcs, e \in SharedEmails, D \in SharedLists : register_domains(p, e, D)
    \/ \E p \in SeqProcs : register_hset_email(p)
    \/ \E p \in SeqProcs : register_hset_domains(p)
    \/ \E p \in SeqProcs : register_hset_status(p)
    \/ \E p \in SeqProcs, e \in SharedEmails : unregister_domains(p, e, <<>>, FALSE)
    \/ \E p \in SeqProcs : unregister_hset_status(p)
    \/ \E p \in SeqProcs : get_all_subscriptions(p)
    \/ \E p \in OneCaller, opts \in SharedOpts : cached_call(p, opts)
    \/ \E p \in OneCaller : get_from_cache(p)
    \/ \E p \in OneCaller, raises \in BOOLEAN : call_resolver(p, raises)
    \/ \E p \in OneCaller : set_in_cache(p)
    \/ \E dt \in TickSteps : tick(dt)

SpecShared == Init /\ [][SharedNext]_vars

\* one check of a domain's certificates after another
SslNext ==
    \/ \E domain \in SslDomains, t \in SslThresholds, dns \in DnsAnswers :
            check_domain_certificates_begin(domain, t, dns)
    \/ \E d \in ssl.todo, h \in Handshakes : check_certificate(d, h)
    \/ check_domain_certificates_return

SpecSsl == Init /\ [][SslNext]_vars

Spec == SpecStore

----------------------------------------------------------------------------
(* Claims about check_domains                                              *)

\* the classification the claims give
Classify(days_left, threshold) ==
    IF days_left < 0 THEN "Expired"
    ELSE IF days_left = 0 THEN "Expiring today!"
    ELSE IF days_left < threshold THEN "Expiring soon!"
    ELSE "Valid domain"

\* C1 (as claimed): every record built from a successful WHOIS lookup has the status
\* Classify gives its days_left and the threshold: Expired below 0, Expiring today at 0,
\* Expiring soon below the threshold, Valid from the threshold on.
C1_StatusIsClassify ==
    \A r \in Runs : \A i \in 1..Len(cd[r].results) :
        LET e == cd[r].results[i]
        IN  e.lookup.kind = "ok" =>
                /\ e.days_left = e.lookup.days
                /\ e.status = Classify(e.lookup.days, cd[r].threshold)

\* C2 (as claimed): in two calls with the same threshold, a domain whose WHOIS lookup
\* gives the same days_left in both gets the same status in both, whatever was
\* processed before it.
C2_NoHiddenState ==
    (cd[1].threshold = cd[2].threshold) =>
        \A i \in 1..Len(cd[1].results) : \A j \in 1..Len(cd[2].results) :
            LET e1 == cd[1].results[i]
                e2 == cd[2].results[j]
            IN  (e1.domain = e2.domain /\ e1.lookup = e2.lookup /\ e1.lookup.kind = "ok")
                    => e1.status = e2.status

----------------------------------------------------------------------------
(* Claims about the Subscription Store                                     *)

Done(p, op) == pc[p] = "done" /\ call[p].op = op

KeyOf(p) == hash_email(call[p].email)

\* every field of the subscriber's hash except `field` is as it was before the call
OtherFieldsKept(p, field) ==
    /\ (DOMAIN pre[p]) \ {field} = (DOMAIN store[KeyOf(p)]) \ {field}
    /\ \A f \in (DOMAIN pre[p]) \ {field} : store[KeyOf(p)][f] = pre[p][f]

StatusOf(h) == hget(h, "status", "none")

\* C3 (as claimed): a successful register(email, D) leaves the stored domain set equal
\* to the set stored just before the call united with D, also when the subscription
\* was Inactive, and leaves the status Active.
C3_RegisterIsUnion ==
    \A p \in Procs :
        (Done(p, "register") /\ ret[p].kind = "success") =>
            /\ StoredSet(store[KeyOf(p)]) = StoredSet(pre[p]) \cup Range(call[p].domains)
            /\ StatusOf(store[KeyOf(p)]) = "active"

\* C4 (as claimed): after two overlapping register calls for the same subscriber have
\* both completed, the stored domain set contains every domain of both lists.
C4_NoLostRegistration ==
    \A p, q \in Procs :
        (/\ p # q
         /\ Done(p, "register") /\ Done(q, "register")
         /\ call[p].email = call[q].email
         /\ call[p].overlapped /\ call[q].overlapped
         /\ ret[p].kind = "success" /\ ret[q].kind = "success")
        => (Range(call[p].domains) \cup Range(call[q].domains))
               \subseteq StoredSet(store[KeyOf(p)])

\* the effect the claim gives to unregister with a list: exactly the listed domains
\* leave the stored set, nothing else in the subscriber's hash changes
RemovedOnly(p) ==
    /\ StoredSet(store[KeyOf(p)]) = StoredSet(pre[p]) \ Range(call[p].domains)
    /\ StatusOf(store[KeyOf(p)]) = StatusOf(pre[p])
    /\ pre[p] # EmptyHash => OtherFieldsKept(p, "domains")
    /\ pre[p] = EmptyHash => store[KeyOf(p)] = EmptyHash

\* C5 (as claimed): unregister(email, D) with a list D given, the empty list included,
\* removes exactly the members of D and leaves the other domains and the status unchanged.
C5_UnregisterAnyList ==
    \A p \in Procs :
        (Done(p, "unregister") /\ call[p].given /\ ret[p].kind # "HTTPException")
            => RemovedOnly(p)

\* C5 (amended): unregister(email, D) with a non-empty list D removes exactly the
\* members of D and leaves the other domains and the status unchanged; an empty list
\* is treated as no list: the status of an existing subscription becomes inactive and
\* its stored domains are kept.
C5_UnregisterNonEmptyList ==
    \A p \in Procs :
        (Done(p, "unregister") /\ call[p].given /\ ret[p].kind # "HTTPException") =>
            IF call[p].domains # <<>>
            THEN RemovedOnly(p)
            ELSE /\ StoredSet(store[KeyOf(p)]) = StoredSet(pre[p])
                 /\ pre[p] # EmptyHash => StatusOf(store[KeyOf(p)]) = "inactive"
                 /\ pre[p] = EmptyHash => store[KeyOf(p)] = EmptyHash

C5_Witness ==
    \E p \in Procs :
        /\ Done(p, "unregister") /\ call[p].given /\ ret[p].kind = "success"
        /\ StatusOf(pre[p]) = "active"
        /\ Range(call[p].domains) \cap StoredSet(pre[p]) # {}
        /\ StoredSet(pre[p]) \ Range(call[p].domains) # {}

\* C6: unregister(email) without a domain list leaves the stored domains field as it
\* was, makes an existing subscription inactive, and get_domains(email) then returns
\* the empty list.
C6_UnregisterAllSoftDeletes ==
    \A p \in Procs :
        (Done(p, "unregister") /\ ~call[p].given /\ ret[p].kind # "HTTPException") =>
            /\ pre[p] # EmptyHash =>
                  /\ StatusOf(store[KeyOf(p)]) = "inactive"
                  /\ OtherFieldsKept(p, "status")
            /\ pre[p] = EmptyHash => store[KeyOf(p)] = EmptyHash
            /\ get_domains_value(call[p].email) = <<>>

C6_Witness ==
    \E p \in Procs :
        /\ Done(p, "unregister") /\ ~call[p].given /\ ret[p].kind = "success"
        /\ StatusOf(pre[p]) = "active"
        /\ Cardinality(StoredSet(pre[p])) = 2
        /\ StoredSet(store[KeyOf(p)]) = StoredSet(pre[p])

EntriesFor(subs, email) == {i \in 1..Len(subs) : subs[i].email = email}

\* C7: get_all_subscriptions returns exactly one entry, holding the stored domains,
\* for each subscriber whose stored status is active, and no other entry.
C7_ListsExactlyActive ==
    \A p \in Procs :
        Done(p, "get_all") =>
            /\ \A e \in Emails :
                  IF StatusOf(store[hash_email(e)]) = "active"
                  THEN /\ Cardinality(EntriesFor(ret[p].subs, e)) = 1
                       /\ \A i \in EntriesFor(ret[p].subs, e) :
                             Range(ret[p].subs[i].domains) = StoredSet(store[hash_email(e)])
                  ELSE EntriesFor(ret[p].subs, e) = {}
            /\ \A i \in 1..Len(ret[p].subs) :
                  ret[p].subs[i].email \in Emails /\ ret[p].subs[i].status = "active"

C7_Witness ==
    \E p \in Procs :
        /\ Done(p, "get_all")
        /\ Len(ret[p].subs) = 1
        /\ \E e \in Emails : StatusOf(store[hash_email(e)]) = "inactive"

\* a step of client p inside a handler
HandlerStep(p) == pc'[p] # pc[p] \/ ret'[p] # ret[p] \/ call'[p] # call[p]

----------------------------------------------------------------------------
(* Claims about the Domain Expiry Cache                                    *)

IsNormal(opts) ==
    /\ ~opts.bypass_cache /\ ~opts.force_refresh
    /\ opts.cache_read /\ opts.cache_write /\ opts.aiocache_wait_for_write

TTLOf(opts) == IF opts.ttl = NoneTTL THEN 86400 ELSE opts.ttl

\* caller p's cache read completes in this step
ReadStep(p) == cq[p].pc = "read" /\ cq'[p].pc # "read"

\* caller p's call returns in this step
ReturnStep(p) == cq[p].pc # "done" /\ cq'[p].pc = "done"

\* the caller's previous call, of the given mode, stored its value and the entry has
\* not run out; no background task touched the cache since
FollowsStored(p, mode) ==
    /\ cq[p].prev.mode = mode
    /\ cq[p].prev.domain = cq[p].opts.domain
    /\ now < cq[p].prev.expires_at
    /\ ~cq[p].disturbed
    /\ cache_up

ReturnsPrevWithoutResolving(p) ==
    /\ cq'[p].pc = "done"
    /\ cq'[p].ret = [kind |-> "value", value |-> cq[p].prev.value]
    /\ whois_calls' = whois_calls

\* C9: a normal call that misses runs the wrapped function once and stores its value
\* under the key with the TTL; the caller's next normal call for the same domain,
\* while that entry lives, returns the same content without running the wrapped
\* function, so the two calls make one WHOIS call.
C9_SecondCallHits ==
    [][\A p \in CacheProcs :
          /\ (ReturnStep(p) /\ IsNormal(cq[p].opts) /\ cq[p].pc = "write" /\ cache_up) =>
                /\ cache'[KeyOfCall(cq[p])] =
                      Entry(<<"json", cq'[p].ret.value>>, now + TTLOf(cq[p].opts))
                /\ cq'[p].ret.value = <<"whois", whois_calls>>
          /\ (cq[p].pc = "resolve" /\ cq'[p].pc # "resolve") =>
                whois_calls' \in {whois_calls, whois_calls + 1}
          /\ (ReadStep(p) /\ IsNormal(cq[p].opts) /\ FollowsStored(p, "normal")) =>
                ReturnsPrevWithoutResolving(p)]_vars

C9_Witness ==
    \E p \in CacheProcs :
        /\ cq[p].pc = "done" /\ IsNormal(cq[p].opts) /\ ~cq[p].disturbed
        /\ cq[p].prev.mode = "normal" /\ now < cq[p].prev.expires_at
        /\ cq[p].ret = [kind |-> "value", value |-> cq[p].prev.value]
        /\ whois_calls = 1

\* C10 (as claimed): whatever its other options, a call with force_refresh that returns
\* a value has written that value under its key with a fresh TTL when it returns.
C10_ForceRefreshAlwaysWrites ==
    [][\A p \in CacheProcs :
          (ReturnStep(p) /\ cq[p].opts.force_refresh /\ cq'[p].ret.kind = "value"
             /\ cache_up) =>
              cache'[KeyOfCall(cq[p])] =
                  Entry(<<"json", cq'[p].ret.value>>, now + TTLOf(cq[p].opts))]_vars

\* C10 (amended): a call with force_refresh that returns a value has written that value
\* under its key with a fresh TTL when it returns if cache_write and
\* aiocache_wait_for_write are on and the store accepts the write; with
\* aiocache_wait_for_write off the write is only queued as a background task, and with
\* cache_write off nothing is written. After such an awaited write the caller's next
\* normal call within the TTL returns that value, no background task having run.
C10_ForceRefreshWritesIfEnabled ==
    [][\A p \in CacheProcs :
          /\ (ReturnStep(p) /\ cq[p].opts.force_refresh /\ cq'[p].ret.kind = "value"
                /\ cache_up) =>
                LET key == KeyOfCall(cq[p])
                    value == cq'[p].ret.value
                    ttl == TTLOf(cq[p].opts)
                IN  IF cq[p].opts.cache_write /\ cq[p].opts.aiocache_wait_for_write
                    THEN cache'[key] = Entry(<<"json", value>>, now + ttl)
                    ELSE IF cq[p].opts.cache_write
                    THEN /\ cache' = cache
                         /\ [kind |-> "set", key |-> key, value |-> value, ttl |-> ttl]
                                \in tasks'
                    ELSE cache' = cache /\ tasks' = tasks
          /\ (ReadStep(p) /\ IsNormal(cq[p].opts) /\ FollowsStored(p, "forced")) =>
                ReturnsPrevWithoutResolving(p)]_vars

C10_Witness ==
    \E p \in CacheProcs :
        /\ cq[p].pc = "done" /\ IsNormal(cq[p].opts) /\ ~cq[p].disturbed
        /\ cq[p].prev.mode = "forced" /\ now < cq[p].prev.expires_at
        /\ cq[p].prev.value = <<"whois", 2>>
        /\ cq[p].ret = [kind |-> "value", value |-> cq[p].prev.value]

Bypassing(opts) == opts.bypass_cache \/ opts.force_refresh

\* C11: a call with bypass_cache or force_refresh set never reads the cache; it runs
\* the wrapped function once, and the value it returns is the one that run computed,
\* whatever entry the cache holds for the key.
C11_BypassNeverReads ==
    [][\A p \in CacheProcs :
          /\ Bypassing(cq'[p].opts) => cq'[p].pc # "read"
          /\ (Bypassing(cq[p].opts) /\ cq[p].pc = "resolve" /\ cq'[p].pc # "resolve"
                /\ cq'[p].ret.kind # "raises") =>
                /\ whois_calls' = whois_calls + 1
                /\ cq'[p].result = <<"whois", whois_calls'>>
          /\ (Bypassing(cq[p].opts) /\ ReturnStep(p) /\ cq[p].pc = "write") =>
                whois_calls' = whois_calls
          /\ (Bypassing(cq[p].opts) /\ ReturnStep(p) /\ cq'[p].ret.kind = "value") =>
                /\ cq'[p].ret.value = cq'[p].result
                /\ cq'[p].ret.value = <<"whois", whois_calls'>>]_vars

\* a bypassing call returned a fresh value while a live entry held another one
C11_Witness ==
    \E p \in CacheProcs :
        /\ cq[p].pc = "done" /\ Bypassing(cq[p].opts) /\ ~cq[p].opts.cache_write
        /\ cq[p].ret.kind = "value" /\ cq[p].ret.value = <<"whois", whois_calls>>
        /\ cache_up /\ Live(cache[KeyOfCall(cq[p])])
        /\ cache[KeyOfCall(cq[p])].data # <<"json", cq[p].ret.value>>

\* C12: a failing cache store never fails the call. A read that fails counts as a miss
\* and the wrapped function is run; a write that fails, awaited or in a background
\* task, leaves the cache as it was and the call returns the value just computed. The
\* only exception a call ends with is the wrapped function's own.
C12_CacheFailOpen ==
    [][\A p \in CacheProcs :
          /\ (ReadStep(p) /\ ~cache_up) =>
                /\ cq'[p].pc = "resolve" /\ cq'[p].ret.kind = "none"
                /\ tasks' = tasks
          /\ (ReturnStep(p) /\ cq[p].pc = "write" /\ ~cache_up) =>
                /\ cq'[p].ret = [kind |-> "value", value |-> cq[p].result]
                /\ cache' = cache
          /\ (ReturnStep(p) /\ cq'[p].ret.kind # "value") =>
                cq[p].pc = "resolve" /\ cq'[p].ret.kind = "raises"
          /\ (ReturnStep(p) /\ ~cache_up /\ cq'[p].ret.kind = "value") =>
                cq'[p].ret.value = <<"whois", whois_calls'>>
          /\ (tasks' # tasks /\ tasks' \subseteq tasks /\ ~cache_up) =>
                /\ cache' = cache
                /\ cq'[p].pc = cq[p].pc /\ cq'[p].ret = cq[p].ret]_vars

\* a normal call went through a failed read and a failed write: the cache still holds
\* an older live entry, and the call returned the value it computed
C12_Witness ==
    \E p \in CacheProcs :
        /\ cq[p].pc = "done" /\ IsNormal(cq[p].opts) /\ ~cache_up
        /\ cq[p].ret = [kind |-> "value", value |-> <<"whois", whois_calls>>]
        /\ cq[p].wrote_until = 0
        /\ Live(cache[KeyOfCall(cq[p])])
        /\ cache[KeyOfCall(cq[p])].data # <<"json", cq[p].ret.value>>

InCall(p) == cq[p].pc \in {"read", "resolve", "write"}

\* C13: concurrent normal calls for one key are not single-flight. Every call that has
\* begun returns, with the value it read or computed unless its own run of the
\* wrapped function raised; every write puts the writer's value under the key,
\* replacing what another call wrote, and nothing else changes the entry, so the entry
\* ends holding the value of the write that came last.
C13_LastWriteWins ==
    /\ [][\A p \in CacheProcs :
             /\ (ReturnStep(p) /\ cq[p].pc = "write") =>
                   /\ cache'[KeyOfCall(cq[p])] =
                         Entry(<<"json", cq[p].result>>, now + TTLOf(cq[p].opts))
                   /\ cq'[p].ret = [kind |-> "value", value |-> cq[p].result]
             /\ (ReturnStep(p) /\ cq'[p].ret.kind # "value") =>
                   cq[p].pc = "resolve" /\ cq'[p].ret.kind = "raises"
             /\ cache' # cache =>
                   \E q \in CacheProcs : ReturnStep(q) /\ cq[q].pc = "write"]_vars
    /\ \A p \in CacheProcs : InCall(p) ~> cq[p].pc = "done"

\* both callers missed and both ran the wrapped function: they returned different
\* values, and the entry holds the second caller's, whose write came last although
\* its value was computed first
C13_Witness ==
    /\ \A p \in CacheProcs : cq[p].pc = "done" /\ cq[p].prev = NoPrev
    /\ cq[1].ret = [kind |-> "value", value |-> <<"whois", 2>>]
    /\ cq[2].ret = [kind |-> "value", value |-> <<"whois", 1>>]
    /\ whois_calls = 2
    /\ \A k \in CacheKeys : cache[k].data = <<"json", <<"whois", 1>>>>

\* C14: every cache write of a call, on a miss, on bypass_cache or on force_refresh,
\* awaited or handed to a background task, sets the entry to expire after the ttl
\* passed with the call, or after 86400 seconds when none was passed.
C14_WritesUseCallTTL ==
    [][/\ \A p \in CacheProcs :
            (ReturnStep(p) /\ cq[p].pc = "write" /\ cache_up) =>
                cache'[KeyOfCall(cq[p])].expires_at =
                    now + (IF cq[p].opts.ttl # NoneTTL THEN cq[p].opts.ttl ELSE 86400)
       /\ \A t \in tasks' \ tasks :
            t.kind = "set" =>
                \E p \in CacheProcs :
                    /\ ReturnStep(p) /\ cq[p].pc = "resolve" /\ t.key = KeyOfCall(cq[p])
                    /\ t.ttl = IF cq[p].opts.ttl # NoneTTL THEN cq[p].opts.ttl ELSE 86400
       /\ \A t \in tasks \ tasks' :
            (t.kind = "set" /\ cache_up) =>
                cache'[t.key] = Entry(<<"json", t.value>>, now + t.ttl)
       /\ \A k \in CacheKeys :
            (cache'[k] # NoEntry /\ cache'[k].data # cache[k].data) =>
                \/ \E p \in CacheProcs :
                       ReturnStep(p) /\ cq[p].pc = "write" /\ k = KeyOfCall(cq[p])
                \/ \E t \in tasks \ tasks' : t.kind = "set" /\ t.key = k]_vars

\* a bypass_cache call that passed ttl=43200 wrote its value at time 43200: the entry
\* expires 43200 seconds after the write
C14_Witness ==
    \E p \in CacheProcs :
        /\ cq[p].pc = "done" /\ cq[p].opts.bypass_cache /\ ~cq[p].opts.force_refresh
        /\ cq[p].opts.ttl = 43200 /\ now = 43200
        /\ cq[p].ret = [kind |-> "value", value |-> <<"whois", 2>>]
        /\ cache[KeyOfCall(cq[p])] = Entry(<<"json", <<"whois", 2>>>>, 86400)

----------------------------------------------------------------------------
(* Claims about the Notification Scheduler                                 *)

\* the run is over and was not cancelled
RunOver == run.pc = "ended" /\ run.outcome.kind # "cancelled"

ResultsFor(email) ==
    {j \in 1..Len(run.notification_results) : run.notification_results[j].email = email}

\* C15 (as claimed): when a run is over, the loop has been through every subscription
\* that was listed, and every listed subscriber with a non-empty domain set has exactly
\* one NotificationResult; no subscriber's failure keeps the others from theirs.
C15_OneResultPerSubscriber ==
    RunOver =>
        /\ run.n = Len(run.subscriptions)
        /\ \A i \in 1..Len(run.subscriptions) :
               run.subscriptions[i].domains # <<>> =>
                   Cardinality(ResultsFor(run.subscriptions[i].email)) = 1

\* C16 (as claimed): a run over the listed subscriptions gives a summary whose
\* notifications_sent is the number of subscribers a digest e-mail was sent to; a
\* subscriber with an empty domain set is skipped: no result, no e-mail, not counted.
C16_SentCountsEmails ==
    RunOver =>
        /\ run.summary # NoSummary
        /\ run.summary.notifications_sent = Len(run.emails_sent)
        /\ \A e \in run.skipped :
               /\ ResultsFor(e) = {}
               /\ \A j \in 1..Len(run.emails_sent) : run.emails_sent[j] # e

\* C17 (as claimed): a run ends in the error result exactly when the subscriptions
\* could not be listed; then it is not reported as a run with zero notifications, and
\* no failure for one subscriber gives the error result.
C17_ListFailureAborts ==
    RunOver => (run.outcome.kind = "error" <=> run.list_failed)

\* C18 (as claimed): a run that has ended, cancelled and failed runs included, has
\* written one run artifact, which holds the NotificationResults gathered until then.
C18_ArtifactAlwaysWritten ==
    run.pc = "ended" => run.artifacts = <<run.notification_results>>

\* the labels the two checks give; "Expiring Soon" is the label of the scheduler's own
\* filtering loops
CheckStatuses ==
    {"Expired", "Expiring today!", "Expiring soon!", "Valid domain", "Valid SSL",
     "Invalid domain"}

\* C19 (as claimed): for each subscriber with domains that the loop takes, the e-mail
\* renderer is handed the domain records and the certificate records, every record
\* with the status its check gave it.
C19_RendererGetsCheckLists ==
    [][(run.pc = "loop" /\ run' # run /\ run'.outcome.kind # "cancelled"
          /\ run.n < Len(run.subscriptions)
          /\ run.subscriptions[run.n + 1].domains # <<>>) =>
            /\ Len(run'.rendered) = Len(run.rendered) + 1
            /\ LET handed == run'.rendered[Len(run'.rendered)]
               IN  /\ handed.email = run.subscriptions[run.n + 1].email
                   /\ \A j \in 1..Len(handed.expiring_domains) :
                          handed.expiring_domains[j].status \in CheckStatuses
                   /\ \A j \in 1..Len(handed.expiring_certs) :
                          handed.expiring_certs[j].status \in CheckStatuses]_vars

----------------------------------------------------------------------------
(* Claims about domain validation                                          *)

\* run r of check_domains goes through one iteration in this step
IterStep(r) == cd[r].pc = "loop" /\ cd'[r].n = cd[r].n + 1

HasInvalidRecord(results, domain) ==
    \E j \in 1..Len(results) :
        /\ results[j].domain = domain
        /\ results[j].status = "Invalid domain" /\ results[j].days_left = -1

\* C20 (as claimed): for every input that fails the format test, the iteration of
\* check_domains issues no DNS query and no WHOIS lookup, does not raise, and the
\* results hold a record for the input with status "Invalid domain" and days_left -1.
C20_MalformedIsInvalid ==
    [][\A r \in Runs :
          (IterStep(r) /\ ~FormatOk(cd'[r].last.input)) =>
              /\ ~cd'[r].last.dns /\ ~cd'[r].last.whois
              /\ HasInvalidRecord(cd'[r].results, cd'[r].last.input)]_vars

\* C20 (amended): for every input whose registered domain, as tldextract gives it,
\* fails the format test, is_valid_domain is false without a DNS query, and the
\* iteration of check_domains makes no WHOIS lookup and does not raise: the results
\* hold one record for that domain, with status "Invalid domain" and days_left -1,
\* appended now unless an earlier input gave the same domain. An input with a
\* malformed label in front of a well-formed registered domain is checked as that
\* registered domain.
C20_MalformedMainDomainIsInvalid ==
    [][\A r \in Runs :
          (IterStep(r) /\ ~FormatOk(MainDomain(cd'[r].last.input))) =>
              LET domain == MainDomain(cd'[r].last.input)
              IN  /\ \A dns_ok \in BOOLEAN : ~is_valid_domain(domain, dns_ok)
                  /\ ~cd'[r].last.dns /\ ~cd'[r].last.whois
                  /\ HasInvalidRecord(cd'[r].results, domain)
                  /\ cd'[r].results =
                        IF domain \in cd[r].rdict THEN cd[r].results
                        ELSE Append(cd[r].results, InvalidEdict(domain))
                  /\ cd'[r].status = cd[r].status]_vars

\* "not a domain!!" came after a domain that was looked up, and got its record
C20_Witness ==
    \E r \in Runs :
        /\ cd[r].last = Iter("not a domain!!", FALSE, FALSE)
        /\ Len(cd[r].results) = 2
        /\ cd[r].results[1].lookup.kind = "ok"
        /\ cd[r].results[2] = InvalidEdict("not a domain!!")

RecordsFor(results, domain) == {j \in 1..Len(results) : results[j].domain = domain}

\* C21: a WHOIS lookup that fails ends neither the iteration nor the call with an
\* exception: the domain gets a record with status "Error", the records gathered
\* before stay as they are, and the loop goes on, so that every registered domain
\* met so far has exactly one record, whichever lookups failed.
C21_WhoisFailureIsolated ==
    [][\A r \in Runs :
          IterStep(r) =>
              LET domain == MainDomain(cd'[r].last.input)
                  before == cd[r].results
                  after == cd'[r].results
              IN  /\ cd'[r].pc = "loop"
                  /\ Len(after) >= Len(before)
                  /\ SubSeq(after, 1, Len(before)) = before
                  /\ \A d \in cd'[r].rdict : Cardinality(RecordsFor(after, d)) = 1
                  /\ domain \in cd'[r].rdict
                  /\ \A j \in 1..Len(after) :
                        after[j].lookup.kind = "raises" =>
                            after[j].status = "Error" /\ after[j].days_left = 0
                  /\ (cd'[r].last.whois /\ Len(after) = Len(before) + 1
                        /\ after[Len(after)].lookup.kind = "raises") =>
                            after[Len(after)] = [domain |-> domain, days_left |-> 0,
                                                 status |-> "Error",
                                                 lookup |-> after[Len(after)].lookup]]_vars

\* the lookup for a.com failed and b.com, checked after it, has its own record
C21_Witness ==
    \E r \in Runs :
        /\ Len(cd[r].results) = 2
        /\ cd[r].results[1].domain = "a.com" /\ cd[r].results[1].status = "Error"
        /\ cd[r].results[1].lookup.kind = "raises"
        /\ cd[r].results[2].domain = "b.com" /\ cd[r].results[2].lookup.kind = "ok"
        /\ cd[r].results[2].status = "Valid domain"

\* the status the list's earliest date stands for
ListStatus(dates, threshold) ==
    LET days == MinOf(dates)
    IN  IF days < 0 THEN "Expired"
        ELSE IF days = 0 THEN "Expiring today!"
        ELSE IF days < threshold THEN "Expiring soon!"
        ELSE "Valid domain"

\* C22: a record built from an expiration_date that was a list of dates has the
\* days_left of the list's earliest date and the status that days_left stands for.
C22_ListTakesEarliest ==
    \A r \in Runs : \A j \in 1..Len(cd[r].results) :
        LET rec == cd[r].results[j]
        IN  rec.lookup.dates # <<>> =>
                /\ rec.days_left = MinOf(rec.lookup.dates)
                /\ rec.status = ListStatus(rec.lookup.dates, cd[r].threshold)

\* the status the threshold policy gives a certificate
PolicyStatus(days, threshold) ==
    IF days < 0 THEN <<"Expired">>
    ELSE IF days = 0 THEN <<"Expiring today!">>
    ELSE IF days < threshold THEN <<"Expiring soon!">>
    ELSE <<"Valid SSL">>

ExpiryStatuses == {<<"Expired">>, <<"Expiring today!">>, <<"Expiring soon!">>, <<"Valid SSL">>}

\* C23: every record returned for a successful handshake carries the status the
\* policy gives its days_to_expire: below 0 Expired, 0 Expiring today, below the
\* threshold Expiring soon, at or above the threshold Valid.
C23_CertStatusTotal ==
    \A j \in 1..Len(ssl.results) :
        LET rec == ssl.results[j]
        IN  rec.handshake.kind = "ok" =>
                rec.status = PolicyStatus(rec.days_to_expire, ssl.threshold)

\* the status that names the kind of failure, as get_certificate_info words it
KindStatus(h) ==
    IF h.kind \in {"gaierror", "timeout"} THEN <<"Connection error: ", h.details>>
    ELSE IF h.kind = "SSLError" THEN <<"SSL error: ", h.details>>
    ELSE <<"Certificate check failed: ", h.details>>

\* C24: a record for a host whose check failed has days_to_expire -1 and a final
\* status that names the kind of the failure (connection, TLS, other), never an
\* expiry status.
C24_ErrorStatusNamesKind ==
    \A j \in 1..Len(ssl.results) :
        LET rec == ssl.results[j]
        IN  rec.handshake.kind # "ok" =>
                /\ rec.days_to_expire = -1
                /\ rec.status = KindStatus(rec.handshake)
                /\ rec.status \notin ExpiryStatuses

HostsOf(results) == {results[j].hostname : j \in 1..Len(results)}

C26_RootAlwaysChecked ==
    /\ ssl.pc # "idle" => RootDomain(ssl.domain) \in ssl.domains_to_check
    /\ ssl.pc = "done" => RootDomain(ssl.domain) \in HostsOf(ssl.results)

\* every DNS probe failed and the domain itself was checked all the same
C26_Witness ==
    /\ ssl.pc = "done"
    /\ ssl.dns.resolver_ok /\ AllProbesFail(ssl.dns)
    /\ ssl.domains_to_check = {RootDomain(ssl.domain)}
    /\ Len(ssl.results) = 1
    /\ ssl.results[1].hostname = RootDomain(ssl.domain)

\* C27: through a decorator built with update_ttl_on_hit=False a cache hit creates
\* no background TTL update, and no such update ever changes an entry.
C27_NoUpdateWhenDisabled ==
    [][~update_ttl_on_hit =>
          /\ \A t \in tasks' \ tasks : t.kind # "update_ttl"
          /\ \A t \in tasks \ tasks' : t.kind = "update_ttl" => cache' = cache]_vars

\* C28: every notification thread that register_domains started goes on to run the
\* domain and certificate checks and to attempt the subscriber's notification.
C28_BackgroundNotificationRuns ==
    \A i \in 1..MaxThreads :
        (Len(threads) >= i)
            ~> (Len(threads) >= i /\ threads[i].checks_run /\ threads[i].send_attempted)

\* the step in which a call's resolver fails
RaiseStep(p) ==
    cq[p].pc = "resolve" /\ cq'[p].pc = "done" /\ cq'[p].ret.kind = "raises"

\* the step in which a call that reads the cache gets its answer
LooksUp(p) == cq[p].pc = "read" /\ cq'[p].pc # "read"

\* the call in progress follows a call for the same domain whose resolver failed,
\* and no background task has touched the cache since that call began
FollowsFailure(p, modes) ==
    /\ cq[p].prev.mode \in modes
    /\ cq[p].prev.domain = cq[p].opts.domain
    /\ ~cq[p].disturbed

\* C29 (as claimed): a failure of the resolver reaches the caller and leaves the
\* cache as it was, in every mode, and the caller's next call for the same domain
\* goes to the resolver again.
C29_FailureThenResolvesAgain ==
    [][\A p \in CacheProcs :
          /\ RaiseStep(p) => cache' = cache /\ tasks' = tasks
          /\ (LooksUp(p) /\ FollowsFailure(p, {"raised", "raised_bypass"})) =>
                cq'[p].pc = "resolve"]_vars

\* C29 (amended): a failure of the resolver reaches the caller, and no step of the
\* failing call creates, overwrites or re-times an entry or queues a cache task;
\* after a failing call that had looked into the cache, the caller's next call for
\* the same domain finds no entry either and goes to the resolver again.
C29_FailureLeavesNoTrace ==
    [][\A p \in CacheProcs :
          /\ RaiseStep(p) => cache' = cache /\ tasks' = tasks
          /\ (cq'[p].pc # cq[p].pc /\ cq'[p].pc \in {"read", "resolve"}) =>
                cache' = cache /\ tasks' = tasks
          /\ (LooksUp(p) /\ FollowsFailure(p, {"raised"})) => cq'[p].pc = "resolve"
          /\ (LooksUp(p) /\ FollowsFailure(p, {"raised_bypass"})
                /\ cq'[p].pc = "done") =>
                /\ Live(cache[KeyOfCall(cq[p])])
                /\ cq'[p].ret = [kind |-> "value",
                                 value |-> loads(cache[KeyOfCall(cq[p])].data)]]_vars

\* a call failed in the resolver, and the caller's next call resolved and returned
C29_Witness ==
    \E p \in CacheProcs :
        /\ cq[p].pc = "done" /\ cq[p].prev.mode = "raised" /\ ~cq[p].disturbed
        /\ cq[p].opts = DefaultOpts(cq[p].prev.domain, NoneTTL)
        /\ cq[p].ret = [kind |-> "value", value |-> WhoisValue(1)]
        /\ whois_calls = 1
        /\ Live(cache[KeyOfCall(cq[p])])

\* C30: whatever other keys the Redis database holds, a listing that has just
\* returned has an entry for every subscriber whose stored status is active.
C30_ForeignKeysSkipped ==
    \A p \in SeqProcs :
        (Done(p, "get_all") /\ redis_up) =>
            \A e \in Emails :
                StatusOf(store[hash_email(e)]) = "active" =>
                    \E i \in 1..Len(ret[p].subs) : ret[p].subs[i].email = e

====
